---- MODULE Spec2Model ----
(***************************************************************************)
(* scripts/resolve_versions.py: the Minecraft version resolver.            *)
(*                                                                         *)
(* A Python str is modelled as the sequence of its characters (one-        *)
(* character strings), so that comparison, sorting and concatenation are   *)
(* computed on the characters as Python computes them.  A dict is          *)
(* modelled as the sequence of its values in insertion order (Python       *)
(* dicts iterate in insertion order), each value carrying its key.         *)
(***************************************************************************)
EXTENDS Integers, Sequences, FiniteSets, TLC

VARIABLES
    pc,                 \* position of main(): "start", "fetch_releases", "fetch_modrinth",
                        \* "group", "report", "output", "done"; "call", "resolve", "resolved" for direct calls
    argv_len,           \* len(sys.argv)
    release_response,   \* what urlopen/json.loads gave fetch_minecraft_releases
    modrinth_response,  \* what urlopen/json.loads gave fetch_modrinth_versions
    mc_releases,        \* list of MinecraftVersion
    modrinth_versions,  \* set of str
    format_groups,      \* the dict returned by group_by_pack_format
    groups_to_upload,   \* main's filtered dict
    stdout,             \* what was printed to sys.stdout, in order
    stderr,             \* what was printed to sys.stderr, in order
    exit_status,        \* Running until the process ends, then its exit status
    calls,              \* number of direct calls of group_by_pack_format made
    missing             \* what a direct call of find_missing_versions returned

vars == <<pc, argv_len, release_response, modrinth_response, mc_releases,
          modrinth_versions, format_groups, groups_to_upload, stdout, stderr,
          exit_status, calls, missing>>

-----------------------------------------------------------------------------
(* Bounds of the model *)

MaxFeedLen == 3         \* entries in the version manifest
MaxModrinthLen == 1     \* version records in the Modrinth answer
MaxCalls == 2           \* direct calls of group_by_pack_format

\* exit_status: no status while the process runs, then the status it ended with
Running == <<>>
Exited(status) == <<status>>

-----------------------------------------------------------------------------
(* Python str operations *)

\* ord(c) for the characters that occur in compared strings
Ord(c) ==
    CASE c = "-" -> 45 [] c = "." -> 46
      [] c = "0" -> 48 [] c = "1" -> 49 [] c = "2" -> 50 [] c = "3" -> 51
      [] c = "4" -> 52 [] c = "5" -> 53 [] c = "6" -> 54 [] c = "7" -> 55
      [] c = "8" -> 56 [] c = "9" -> 57
      [] c = "a" -> 97 [] c = "w" -> 119

\* str.__lt__: lexicographic by code point, a proper prefix is smaller
RECURSIVE StrLess(_, _)
StrLess(a, b) ==
    IF b = <<>> THEN FALSE
    ELSE IF a = <<>> THEN TRUE
    ELSE IF Ord(Head(a)) # Ord(Head(b)) THEN Ord(Head(a)) < Ord(Head(b))
    ELSE StrLess(Tail(a), Tail(b))

\* one step of a stable ascending sort: x goes after every element not greater than it
RECURSIVE SortedInsert(_, _)
SortedInsert(sorted, x) ==
    IF sorted = <<>> THEN <<x>>
    ELSE IF StrLess(x, Head(sorted)) THEN <<x>> \o sorted
    ELSE <<Head(sorted)>> \o SortedInsert(Tail(sorted), x)

\* list.sort() / sorted() on a list of str
RECURSIVE ListSort(_)
ListSort(list) ==
    IF list = <<>> THEN <<>>
    ELSE SortedInsert(ListSort(SubSeq(list, 1, Len(list) - 1)), list[Len(list)])

\* str(n) for n >= 0
Digit(d) == <<"0", "1", "2", "3", "4", "5", "6", "7", "8", "9">>[d + 1]

RECURSIVE IntToStr(_)
IntToStr(n) ==
    IF n < 10 THEN <<Digit(n)>> ELSE IntToStr(n \div 10) \o <<Digit(n % 10)>>

-----------------------------------------------------------------------------
(* The catalog *)

MINECRAFT_VERSION_MAP ==
    \* 1.0-1.5 (pack_format 1)
       (<<"1",".","0">>                          :>  1)   \* "1.0": 1
    @@ (<<"1",".","1">>                          :>  1)   \* "1.1": 1
    @@ (<<"1",".","2",".","1">>                  :>  1)   \* "1.2.1": 1
    @@ (<<"1",".","2",".","2">>                  :>  1)   \* "1.2.2": 1
    @@ (<<"1",".","2",".","3">>                  :>  1)   \* "1.2.3": 1
    @@ (<<"1",".","2",".","4">>                  :>  1)   \* "1.2.4": 1
    @@ (<<"1",".","2",".","5">>                  :>  1)   \* "1.2.5": 1
    @@ (<<"1",".","3",".","1">>                  :>  1)   \* "1.3.1": 1
    @@ (<<"1",".","3",".","2">>                  :>  1)   \* "1.3.2": 1
    @@ (<<"1",".","4",".","2">>                  :>  1)   \* "1.4.2": 1
    @@ (<<"1",".","4",".","4">>                  :>  1)   \* "1.4.4": 1
    @@ (<<"1",".","4",".","5">>                  :>  1)   \* "1.4.5": 1
    @@ (<<"1",".","4",".","6">>                  :>  1)   \* "1.4.6": 1
    @@ (<<"1",".","4",".","7">>                  :>  1)   \* "1.4.7": 1
    @@ (<<"1",".","5",".","1">>                  :>  1)   \* "1.5.1": 1
    @@ (<<"1",".","5",".","2">>                  :>  1)   \* "1.5.2": 1
    \* 1.6-1.8 (pack_format 1)
    @@ (<<"1",".","6",".","1">>                  :>  1)   \* "1.6.1": 1
    @@ (<<"1",".","6",".","2">>                  :>  1)   \* "1.6.2": 1
    @@ (<<"1",".","6",".","4">>                  :>  1)   \* "1.6.4": 1
    @@ (<<"1",".","7",".","2">>                  :>  1)   \* "1.7.2": 1
    @@ (<<"1",".","7",".","3">>                  :>  1)   \* "1.7.3": 1
    @@ (<<"1",".","7",".","4">>                  :>  1)   \* "1.7.4": 1
    @@ (<<"1",".","7",".","5">>                  :>  1)   \* "1.7.5": 1
    @@ (<<"1",".","7",".","6">>                  :>  1)   \* "1.7.6": 1
    @@ (<<"1",".","7",".","7">>                  :>  1)   \* "1.7.7": 1
    @@ (<<"1",".","7",".","8">>                  :>  1)   \* "1.7.8": 1
    @@ (<<"1",".","7",".","9">>                  :>  1)   \* "1.7.9": 1
    @@ (<<"1",".","7",".","1","0">>              :>  1)   \* "1.7.10": 1
    @@ (<<"1",".","8">>                          :>  1)   \* "1.8": 1
    @@ (<<"1",".","8",".","1">>                  :>  1)   \* "1.8.1": 1
    @@ (<<"1",".","8",".","2">>                  :>  1)   \* "1.8.2": 1
    @@ (<<"1",".","8",".","3">>                  :>  1)   \* "1.8.3": 1
    @@ (<<"1",".","8",".","4">>                  :>  1)   \* "1.8.4": 1
    @@ (<<"1",".","8",".","5">>                  :>  1)   \* "1.8.5": 1
    @@ (<<"1",".","8",".","6">>                  :>  1)   \* "1.8.6": 1
    @@ (<<"1",".","8",".","7">>                  :>  1)   \* "1.8.7": 1
    @@ (<<"1",".","8",".","8">>                  :>  1)   \* "1.8.8": 1
    @@ (<<"1",".","8",".","9">>                  :>  1)   \* "1.8.9": 1
    \* 1.9-1.10 (pack_format 2)
    @@ (<<"1",".","9">>                          :>  2)   \* "1.9": 2
    @@ (<<"1",".","9",".","1">>                  :>  2)   \* "1.9.1": 2
    @@ (<<"1",".","9",".","2">>                  :>  2)   \* "1.9.2": 2
    @@ (<<"1",".","9",".","3">>                  :>  2)   \* "1.9.3": 2
    @@ (<<"1",".","9",".","4">>                  :>  2)   \* "1.9.4": 2
    @@ (<<"1",".","1","0">>                      :>  2)   \* "1.10": 2
    @@ (<<"1",".","1","0",".","1">>              :>  2)   \* "1.10.1": 2
    @@ (<<"1",".","1","0",".","2">>              :>  2)   \* "1.10.2": 2
    \* 1.11-1.12 (pack_format 3)
    @@ (<<"1",".","1","1">>                      :>  3)   \* "1.11": 3
    @@ (<<"1",".","1","1",".","1">>              :>  3)   \* "1.11.1": 3
    @@ (<<"1",".","1","1",".","2">>              :>  3)   \* "1.11.2": 3
    @@ (<<"1",".","1","2">>                      :>  3)   \* "1.12": 3
    @@ (<<"1",".","1","2",".","1">>              :>  3)   \* "1.12.1": 3
    @@ (<<"1",".","1","2",".","2">>              :>  3)   \* "1.12.2": 3
    \* 1.13-1.14 (pack_format 4)
    @@ (<<"1",".","1","3">>                      :>  4)   \* "1.13": 4
    @@ (<<"1",".","1","3",".","1">>              :>  4)   \* "1.13.1": 4
    @@ (<<"1",".","1","3",".","2">>              :>  4)   \* "1.13.2": 4
    @@ (<<"1",".","1","4">>                      :>  4)   \* "1.14": 4
    @@ (<<"1",".","1","4",".","1">>              :>  4)   \* "1.14.1": 4
    @@ (<<"1",".","1","4",".","2">>              :>  4)   \* "1.14.2": 4
    @@ (<<"1",".","1","4",".","3">>              :>  4)   \* "1.14.3": 4
    @@ (<<"1",".","1","4",".","4">>              :>  4)   \* "1.14.4": 4
    \* 1.15 (pack_format 5)
    @@ (<<"1",".","1","5">>                      :>  5)   \* "1.15": 5
    @@ (<<"1",".","1","5",".","1">>              :>  5)   \* "1.15.1": 5
    @@ (<<"1",".","1","5",".","2">>              :>  5)   \* "1.15.2": 5
    \* 1.16-1.17 (pack_format 6)
    @@ (<<"1",".","1","6">>                      :>  6)   \* "1.16": 6
    @@ (<<"1",".","1","6",".","1">>              :>  6)   \* "1.16.1": 6
    @@ (<<"1",".","1","6",".","2">>              :>  6)   \* "1.16.2": 6
    @@ (<<"1",".","1","6",".","3">>              :>  6)   \* "1.16.3": 6
    @@ (<<"1",".","1","6",".","4">>              :>  6)   \* "1.16.4": 6
    @@ (<<"1",".","1","6",".","5">>              :>  6)   \* "1.16.5": 6
    @@ (<<"1",".","1","7">>                      :>  6)   \* "1.17": 6
    @@ (<<"1",".","1","7",".","1">>              :>  6)   \* "1.17.1": 6
    \* 1.18 (pack_format 7)
    @@ (<<"1",".","1","8">>                      :>  7)   \* "1.18": 7
    @@ (<<"1",".","1","8",".","1">>              :>  7)   \* "1.18.1": 7
    @@ (<<"1",".","1","8",".","2">>              :>  7)   \* "1.18.2": 7
    \* 1.19 (pack_format 8)
    @@ (<<"1",".","1","9">>                      :>  8)   \* "1.19": 8
    @@ (<<"1",".","1","9",".","1">>              :>  8)   \* "1.19.1": 8
    @@ (<<"1",".","1","9",".","2">>              :>  8)   \* "1.19.2": 8
    @@ (<<"1",".","1","9",".","3">>              :>  8)   \* "1.19.3": 8
    @@ (<<"1",".","1","9",".","4">>              :>  8)   \* "1.19.4": 8
    \* 1.20 (pack_format 12)
    @@ (<<"1",".","2","0">>                      :> 12)   \* "1.20": 12
    @@ (<<"1",".","2","0",".","1">>              :> 12)   \* "1.20.1": 12
    @@ (<<"1",".","2","0",".","2">>              :> 12)   \* "1.20.2": 12
    @@ (<<"1",".","2","0",".","3">>              :> 12)   \* "1.20.3": 12
    @@ (<<"1",".","2","0",".","4">>              :> 12)   \* "1.20.4": 12
    @@ (<<"1",".","2","0",".","5">>              :> 12)   \* "1.20.5": 12
    @@ (<<"1",".","2","0",".","6">>              :> 12)   \* "1.20.6": 12
    \* 1.21 (pack_format 12 - future versions included for forward compatibility)
    @@ (<<"1",".","2","1">>                      :> 12)   \* "1.21": 12
    @@ (<<"1",".","2","1",".","1">>              :> 12)   \* "1.21.1": 12
    @@ (<<"1",".","2","1",".","2">>              :> 12)   \* "1.21.2": 12
    @@ (<<"1",".","2","1",".","3">>              :> 12)   \* "1.21.3": 12
    @@ (<<"1",".","2","1",".","4">>              :> 12)   \* "1.21.4": 12
    @@ (<<"1",".","2","1",".","5">>              :> 12)   \* "1.21.5": 12
    @@ (<<"1",".","2","1",".","6">>              :> 12)   \* "1.21.6": 12
    @@ (<<"1",".","2","1",".","7">>              :> 12)   \* "1.21.7": 12
    @@ (<<"1",".","2","1",".","8">>              :> 12)   \* "1.21.8": 12
    @@ (<<"1",".","2","1",".","9">>              :> 12)   \* "1.21.9": 12
    @@ (<<"1",".","2","1",".","1","0">>          :> 12)   \* "1.21.10": 12
    @@ (<<"1",".","2","1",".","1","1">>          :> 12)   \* "1.21.11": 12

\* @dataclass MinecraftVersion
MinecraftVersion(version, pack_format) ==
    [version |-> version, pack_format |-> pack_format]

-----------------------------------------------------------------------------
(* fetch_minecraft_releases: the loop over data["versions"] *)

UnknownWarning(version_str) == [line |-> "WARNING: Unknown pack_format for version", arg |-> version_str]

\* faulty variant: the loop without the test of the entry's type
RECURSIVE ReleasesLoopNoTypeFilter(_, _, _)
ReleasesLoopNoTypeFilter(versions, releases, warnings) ==
    IF versions = <<>> THEN [releases |-> releases, warnings |-> warnings]
    ELSE LET version_str == Head(versions).id
         IN  IF version_str \in DOMAIN MINECRAFT_VERSION_MAP
             THEN ReleasesLoopNoTypeFilter(Tail(versions),
                      Append(releases, MinecraftVersion(version_str, MINECRAFT_VERSION_MAP[version_str])),
                      warnings)
             ELSE ReleasesLoopNoTypeFilter(Tail(versions), releases,
                      Append(warnings, UnknownWarning(version_str)))

\* returns the releases list and the warnings printed to stderr, both in feed order
RECURSIVE ReleasesLoop(_, _, _)
ReleasesLoop(versions, releases, warnings) ==
    IF versions = <<>> THEN [releases |-> releases, warnings |-> warnings]
    ELSE LET version_obj == Head(versions)
             version_str == version_obj.id
         IN  IF version_obj.type = "release"
             THEN IF version_str \in DOMAIN MINECRAFT_VERSION_MAP
                  THEN ReleasesLoop(Tail(versions),
                           Append(releases, MinecraftVersion(version_str, MINECRAFT_VERSION_MAP[version_str])),
                           warnings)
                  ELSE ReleasesLoop(Tail(versions), releases,
                           Append(warnings, UnknownWarning(version_str)))
             ELSE ReleasesLoop(Tail(versions), releases, warnings)

-----------------------------------------------------------------------------
(* fetch_modrinth_versions: the loop over the version records *)

RECURSIVE AddAll(_, _)
AddAll(set, game_versions) ==
    IF game_versions = <<>> THEN set
    ELSE AddAll(set \cup {Head(game_versions)}, Tail(game_versions))

RECURSIVE ModrinthLoop(_, _)
ModrinthLoop(versions, set) ==
    IF versions = <<>> THEN set
    ELSE ModrinthLoop(Tail(versions), AddAll(set, Head(versions).game_versions))

-----------------------------------------------------------------------------
(* find_missing_versions *)

\* faulty variant: the result built in reverse order
RECURSIVE find_missing_versions_reversed(_, _)
find_missing_versions_reversed(minecraft_releases, published) ==
    IF minecraft_releases = <<>> THEN <<>>
    ELSE LET release == Head(minecraft_releases)
             rest == find_missing_versions_reversed(Tail(minecraft_releases), published)
         IN  IF release.version \notin published THEN rest \o <<release>> ELSE rest

RECURSIVE find_missing_versions(_, _)
find_missing_versions(minecraft_releases, published) ==
    IF minecraft_releases = <<>> THEN <<>>
    ELSE LET release == Head(minecraft_releases)
             rest == find_missing_versions(Tail(minecraft_releases), published)
         IN  IF release.version \notin published THEN <<release>> \o rest ELSE rest

-----------------------------------------------------------------------------
(* group_by_pack_format *)

\* pf in format_groups
HasKey(groups, pf) == \E i \in 1..Len(groups) : groups[i].pack_format = pf

\* the position of format_groups[pf] in insertion order
KeyIndex(groups, pf) == CHOOSE i \in 1..Len(groups) : groups[i].pack_format = pf

NewGroup(pf) ==
    [pack_format |-> pf, versions |-> <<>>, all_versions |-> <<>>,
     missing_versions |-> <<>>, has_missing |-> FALSE]

\* faulty variant: the group created anew for every release, without the test
\* "pf not in format_groups" (the assignment replaces the value of an existing key)
AddReleaseOverwrites(groups, release, published) ==
    LET pf == release.pack_format
        created == IF ~HasKey(groups, pf) THEN Append(groups, NewGroup(pf))
                   ELSE [groups EXCEPT ![KeyIndex(groups, pf)] = NewGroup(pf)]
        i == KeyIndex(created, pf)
        appended == [created EXCEPT ![i].all_versions = Append(@, release.version)]
    IN  IF release.version \notin published
        THEN [appended EXCEPT ![i].missing_versions = Append(@, release.version),
                              ![i].has_missing = TRUE]
        ELSE appended

\* faulty variant: the test of the published set inverted
AddReleaseInverted(groups, release, published) ==
    LET pf == release.pack_format
        created == IF ~HasKey(groups, pf) THEN Append(groups, NewGroup(pf)) ELSE groups
        i == KeyIndex(created, pf)
        appended == [created EXCEPT ![i].all_versions = Append(@, release.version)]
    IN  IF release.version \in published
        THEN [appended EXCEPT ![i].missing_versions = Append(@, release.version),
                              ![i].has_missing = TRUE]
        ELSE appended

\* the body of the first loop, for one release
AddRelease(groups, release, published) ==
    LET pf == release.pack_format
        created == IF ~HasKey(groups, pf) THEN Append(groups, NewGroup(pf)) ELSE groups
        i == KeyIndex(created, pf)
        appended == [created EXCEPT ![i].all_versions = Append(@, release.version)]
    IN  IF release.version \notin published
        THEN [appended EXCEPT ![i].missing_versions = Append(@, release.version),
                              ![i].has_missing = TRUE]
        ELSE appended

RECURSIVE GroupLoop(_, _, _)
GroupLoop(minecraft_releases, published, groups) ==
    IF minecraft_releases = <<>> THEN groups
    ELSE GroupLoop(Tail(minecraft_releases), published,
                   AddRelease(groups, Head(minecraft_releases), published))

\* faulty variant: no special case for a single version
VersionRangeAlwaysJoined(versions) ==
    versions[1] \o <<"-">> \o versions[Len(versions)]

VersionRange(versions) ==
    IF Len(versions) = 1 THEN versions[1]
    ELSE versions[1] \o <<"-">> \o versions[Len(versions)]

PackFormatPrefix == <<"p", "a", "c", "k", "-", "f", "o", "r", "m", "a", "t", "-">>
DisplayPrefix == <<"P", "a", "c", "k", " ", "F", "o", "r", "m", "a", "t", " ">>

\* the body of the second loop, for one group; versions.sort() sorts the
\* group's own all_versions list in place
RangeGroup(group) ==
    LET pf == group.pack_format
        versions == ListSort(group.all_versions)
        version_range == VersionRange(versions)
    IN  [pack_format |-> pf,
         versions |-> group.versions,
         all_versions |-> versions,
         missing_versions |-> group.missing_versions,
         has_missing |-> group.has_missing,
         version_range |-> version_range,
         version_number |-> PackFormatPrefix \o IntToStr(pf),
         display_name |-> DisplayPrefix \o IntToStr(pf) \o <<" ", "(">> \o version_range \o <<")">>]

RangeLoop(groups) == [i \in 1..Len(groups) |-> RangeGroup(groups[i])]

EmptyDict == <<>>

\* faulty variant: format_groups kept between calls instead of starting empty
group_by_pack_format_shared(minecraft_releases, published) ==
    RangeLoop(GroupLoop(minecraft_releases, published, format_groups))

group_by_pack_format(minecraft_releases, published) ==
    RangeLoop(GroupLoop(minecraft_releases, published, EmptyDict))

-----------------------------------------------------------------------------
(* The answers of the two remote services *)

Line(text, arg) == [line |-> text, arg |-> arg]

\* release ids of the manifest: eight ids of the catalog and one that is not in it
ReleaseIds ==
    { <<"1",".","8">>, <<"1",".","9">>, <<"1",".","1","0">>, <<"1",".","1","3">>,
      <<"1",".","1","6">>, <<"1",".","1","6",".","1">>, <<"1",".","1","7">>,
      <<"1",".","2","1">>, <<"9","9",".","0">> }

FeedEntries ==
    { [id |-> v, type |-> "release"] : v \in ReleaseIds }
        \cup { [id |-> <<"2","4","w","1","4","a">>, type |-> "snapshot"] }

SeqUpTo(S, n) == UNION { [1..k -> S] : k \in 0..n }

\* data.get("versions", []) of a manifest that was fetched and parsed, or a failure
\* (urlopen raising, a timeout, json.loads raising)
ReleaseResponses ==
    { [kind |-> "ok", versions |-> f] : f \in SeqUpTo(FeedEntries, MaxFeedLen) }
        \cup { [kind |-> "error", versions |-> <<>>] }

GameVersionLists ==
    { <<>>,
      << <<"1",".","2","1">>, <<"1",".","1","3">> >>,
      << <<"1",".","9">>, <<"1",".","1","6">>, <<"1",".","2","1">>, <<"2","4","w","1","4","a">> >> }

HttpErrorCodes == {404, 500}

\* the parsed list of version records, urllib.error.HTTPError with a code, or any
\* other exception
ModrinthResponses ==
    { [kind |-> "ok", code |-> 200, versions |-> f] :
          f \in SeqUpTo({ [game_versions |-> l] : l \in GameVersionLists }, MaxModrinthLen) }
        \cup { [kind |-> "http_error", code |-> c, versions |-> <<>>] : c \in HttpErrorCodes }
        \cup { [kind |-> "error", code |-> 0, versions |-> <<>>] }

NoResponse == [kind |-> "none"]

-----------------------------------------------------------------------------
(* The two fetch functions: what they return or whether they call sys.exit(1), *)
(* and what they print to stderr                                               *)

fetch_minecraft_releases(response) ==
    IF response.kind = "ok"
    THEN LET r == ReleasesLoop(response.versions, <<>>, <<>>)
         IN  [exit |-> FALSE, value |-> r.releases, stderr |-> r.warnings]
    ELSE [exit |-> TRUE, value |-> <<>>,
          stderr |-> <<Line("ERROR: Failed to fetch Minecraft releases", <<>>)>>]

\* faulty variant: HTTP 404 treated like every other HTTP error
fetch_modrinth_versions_strict(response) ==
    IF response.kind = "ok"
    THEN [exit |-> FALSE, value |-> ModrinthLoop(response.versions, {}), stderr |-> <<>>]
    ELSE [exit |-> TRUE, value |-> {},
          stderr |-> <<Line("ERROR: Modrinth API error", <<>>)>>]

\* faulty variant: every failure answered with the empty set
fetch_modrinth_versions_lenient(response) ==
    IF response.kind = "ok"
    THEN [exit |-> FALSE, value |-> ModrinthLoop(response.versions, {}), stderr |-> <<>>]
    ELSE [exit |-> FALSE, value |-> {},
          stderr |-> <<Line("WARNING: Project not found on Modrinth", <<>>)>>]

fetch_modrinth_versions(response) ==
    IF response.kind = "ok"
    THEN [exit |-> FALSE, value |-> ModrinthLoop(response.versions, {}), stderr |-> <<>>]
    ELSE IF response.kind = "http_error"
    THEN IF response.code = 404
         THEN [exit |-> FALSE, value |-> {},
               stderr |-> <<Line("WARNING: Project not found on Modrinth", <<>>)>>]
         ELSE [exit |-> TRUE, value |-> {},
               stderr |-> <<Line("ERROR: Modrinth API error", <<>>)>>]
    ELSE [exit |-> TRUE, value |-> {},
          stderr |-> <<Line("ERROR: Failed to fetch Modrinth versions", <<>>)>>]

-----------------------------------------------------------------------------
(* main *)

\* faulty variant: sorted() without reverse=True
RECURSIVE SortedItemsAscending(_)
SortedItemsAscending(groups) ==
    IF groups = <<>> THEN <<>>
    ELSE LET i == CHOOSE j \in 1..Len(groups) :
                      \A k \in 1..Len(groups) : groups[k].pack_format >= groups[j].pack_format
         IN  <<groups[i]>> \o
             SortedItemsAscending(SubSeq(groups, 1, i - 1) \o SubSeq(groups, i + 1, Len(groups)))

\* sorted(groups_to_upload.items(), reverse=True): the keys are distinct, so the
\* items are ordered by key alone, largest first
RECURSIVE SortedItemsReverse(_)
SortedItemsReverse(groups) ==
    IF groups = <<>> THEN <<>>
    ELSE LET i == CHOOSE j \in 1..Len(groups) :
                      \A k \in 1..Len(groups) : groups[k].pack_format <= groups[j].pack_format
         IN  <<groups[i]>> \o
             SortedItemsReverse(SubSeq(groups, 1, i - 1) \o SubSeq(groups, i + 1, Len(groups)))

GroupLine(group) ==
    [line |-> "- Pack Format", arg |-> group.pack_format,
     missing |-> Len(group.missing_versions), version_range |-> group.version_range]

ReportLines(to_upload) ==
    IF to_upload # <<>>
    THEN <<Line("[!] Found pack format groups to upload:", Len(to_upload))>>
             \o [i \in 1..Len(to_upload) |-> GroupLine(SortedItemsReverse(to_upload)[i])]
    ELSE <<Line("[+] All pack formats are up-to-date!", <<>>)>>

HasMissing(group) == group.has_missing

\* list(set) in some order
RECURSIVE SetToList(_)
SetToList(set) ==
    IF set = {} THEN <<>>
    ELSE LET x == CHOOSE y \in set : TRUE IN <<x>> \o SetToList(set \ {x})

\* the dict that json.dumps serialises
Plan(groups, published) ==
    [all_groups |-> groups,
     groups_to_upload |-> SelectSeq(groups, HasMissing),
     modrinth_versions |-> ListSort(SetToList(published))]

Init ==
    /\ pc = "start"
    /\ argv_len \in {1, 2, 3}
    /\ release_response = NoResponse
    /\ modrinth_response = NoResponse
    /\ mc_releases = <<>>
    /\ modrinth_versions = {}
    /\ format_groups = <<>>
    /\ groups_to_upload = <<>>
    /\ stdout = <<>>
    /\ stderr = <<>>
    /\ exit_status = Running
    /\ calls = 0
    /\ missing = <<>>

\* lines 211-215
CheckArgs ==
    /\ pc = "start"
    /\ IF argv_len # 2
       THEN /\ stderr' = Append(stderr, Line("Usage: python3 resolve_versions.py <modrinth_project_id>", <<>>))
            /\ exit_status' = Exited(1)
            /\ pc' = "done"
       ELSE /\ pc' = "fetch_releases"
            /\ UNCHANGED <<stderr, exit_status>>
    /\ UNCHANGED <<argv_len, release_response, modrinth_response, mc_releases,
                   modrinth_versions, format_groups, groups_to_upload, stdout, calls, missing>>

\* lines 217-219
FetchMinecraftReleases ==
    /\ pc = "fetch_releases"
    /\ \E response \in ReleaseResponses :
         LET r == fetch_minecraft_releases(response)
             printed == Append(stderr, Line("[*] Fetching Minecraft releases...", <<>>)) \o r.stderr
         IN  /\ release_response' = response
             /\ IF r.exit
                THEN /\ stderr' = printed
                     /\ exit_status' = Exited(1)
                     /\ pc' = "done"
                     /\ UNCHANGED mc_releases
                ELSE /\ mc_releases' = r.value
                     /\ stderr' = Append(printed, Line("[+] Found Minecraft release versions", Len(r.value)))
                     /\ pc' = "fetch_modrinth"
                     /\ UNCHANGED exit_status
    /\ UNCHANGED <<argv_len, modrinth_response, modrinth_versions, format_groups,
                   groups_to_upload, stdout, calls, missing>>

\* lines 221-223
FetchModrinthVersions ==
    /\ pc = "fetch_modrinth"
    /\ \E response \in ModrinthResponses :
         LET r == fetch_modrinth_versions(response)
             printed == Append(stderr, Line("[*] Fetching Modrinth versions for project", <<>>)) \o r.stderr
         IN  /\ modrinth_response' = response
             /\ IF r.exit
                THEN /\ stderr' = printed
                     /\ exit_status' = Exited(1)
                     /\ pc' = "done"
                     /\ UNCHANGED modrinth_versions
                ELSE /\ modrinth_versions' = r.value
                     /\ stderr' = Append(printed, Line("[+] Found versions on Modrinth", Cardinality(r.value)))
                     /\ pc' = "group"
                     /\ UNCHANGED exit_status
    /\ UNCHANGED <<argv_len, release_response, mc_releases, format_groups,
                   groups_to_upload, stdout, calls, missing>>

\* lines 226-232
GroupByPackFormat ==
    /\ pc = "group"
    /\ format_groups' = group_by_pack_format(mc_releases, modrinth_versions)
    /\ groups_to_upload' = SelectSeq(format_groups', HasMissing)
    /\ pc' = "report"
    /\ UNCHANGED <<argv_len, release_response, modrinth_response, mc_releases,
                   modrinth_versions, stdout, stderr, exit_status, calls, missing>>

\* lines 234-239
Report ==
    /\ pc = "report"
    /\ stderr' = stderr \o ReportLines(groups_to_upload)
    /\ pc' = "output"
    /\ UNCHANGED <<argv_len, release_response, modrinth_response, mc_releases,
                   modrinth_versions, format_groups, groups_to_upload, stdout,
                   exit_status, calls, missing>>

\* lines 242-251, and the interpreter ending with status 0 after main returns
Output ==
    /\ pc = "output"
    /\ stdout' = Append(stdout, Plan(format_groups, modrinth_versions))
    /\ exit_status' = Exited(0)
    /\ pc' = "done"
    /\ UNCHANGED <<argv_len, release_response, modrinth_response, mc_releases,
                   modrinth_versions, format_groups, groups_to_upload, stderr, calls, missing>>

Next ==
    \/ CheckArgs
    \/ FetchMinecraftReleases
    \/ FetchModrinthVersions
    \/ GroupByPackFormat
    \/ Report
    \/ Output

Spec == Init /\ [][Next]_vars

-----------------------------------------------------------------------------
(* group_by_pack_format called directly, repeatedly, on one pair of inputs *)

\* the lists fetch_minecraft_releases can return from the manifest ids
CatalogReleases ==
    { MinecraftVersion(v, MINECRAFT_VERSION_MAP[v]) : v \in ReleaseIds \cap DOMAIN MINECRAFT_VERSION_MAP }

PublishedIds == { <<"1",".","9">>, <<"1",".","1","6">>, <<"1",".","2","1">> }

InitGroup ==
    /\ pc = "call"
    /\ argv_len = 2
    /\ release_response = NoResponse
    /\ modrinth_response = NoResponse
    /\ mc_releases \in SeqUpTo(CatalogReleases, MaxFeedLen)
    /\ modrinth_versions \in SUBSET PublishedIds
    /\ format_groups = <<>>
    /\ groups_to_upload = <<>>
    /\ stdout = <<>>
    /\ stderr = <<>>
    /\ exit_status = Running
    /\ calls = 0
    /\ missing = <<>>

\* lines 155-206; the arguments are only read
CallGroup ==
    /\ pc = "call"
    /\ calls < MaxCalls
    /\ format_groups' = group_by_pack_format(mc_releases, modrinth_versions)
    /\ calls' = calls + 1
    /\ UNCHANGED <<pc, argv_len, release_response, modrinth_response, mc_releases,
                   modrinth_versions, groups_to_upload, stdout, stderr, exit_status,
                   missing>>

NextGroup == CallGroup

SpecGroup == InitGroup /\ [][NextGroup]_vars

-----------------------------------------------------------------------------
(* find_missing_versions called directly on one pair of inputs *)

InitMissing ==
    /\ pc = "resolve"
    /\ argv_len = 2
    /\ release_response = NoResponse
    /\ modrinth_response = NoResponse
    /\ mc_releases \in SeqUpTo(CatalogReleases, MaxFeedLen)
    /\ modrinth_versions \in SUBSET PublishedIds
    /\ format_groups = <<>>
    /\ groups_to_upload = <<>>
    /\ stdout = <<>>
    /\ stderr = <<>>
    /\ exit_status = Running
    /\ calls = 0
    /\ missing = <<>>

\* lines 133-152; the arguments are only read
CallFindMissing ==
    /\ pc = "resolve"
    /\ missing' = find_missing_versions(mc_releases, modrinth_versions)
    /\ pc' = "resolved"
    /\ UNCHANGED <<argv_len, release_response, modrinth_response, mc_releases,
                   modrinth_versions, format_groups, groups_to_upload, stdout, stderr,
                   exit_status, calls>>

NextMissing == CallFindMissing

SpecMissing == InitMissing /\ [][NextMissing]_vars

-----------------------------------------------------------------------------
(* Properties of group_by_pack_format, checked under SpecGroup *)

Elems(seq) == { seq[i] : i \in 1..Len(seq) }

RECURSIVE IsSubsequence(_, _)
IsSubsequence(sub, seq) ==
    IF sub = <<>> THEN TRUE
    ELSE IF seq = <<>> THEN FALSE
    ELSE IF Head(sub) = Head(seq) THEN IsSubsequence(Tail(sub), Tail(seq))
    ELSE IsSubsequence(sub, Tail(seq))

Returned == pc = "call" /\ calls > 0

\* C1: in every returned group, missing_versions is an ordered subsequence of
\* all_versions (as returned, after sorting): the missing identifiers keep the
\* relative order they have in all_versions.
C1_MissingIsSubsequenceOfMembers ==
    Returned =>
        \A i \in 1..Len(format_groups) :
            IsSubsequence(format_groups[i].missing_versions, format_groups[i].all_versions)

\* the dotted identifier as its numeric segments: "1.21.10" is <<1, 21, 10>>
RECURSIVE ParseSegments(_, _, _)
ParseSegments(chars, current, segments) ==
    IF chars = <<>> THEN Append(segments, current)
    ELSE IF Head(chars) = "." THEN ParseSegments(Tail(chars), 0, Append(segments, current))
    ELSE ParseSegments(Tail(chars), 10 * current + (Ord(Head(chars)) - Ord("0")), segments)

Segments(version) == ParseSegments(version, 0, <<>>)

\* segment-wise numeric comparison; a proper prefix comes first (1.9 before 1.9.1)
RECURSIVE SegmentsLess(_, _)
SegmentsLess(a, b) ==
    IF b = <<>> THEN FALSE
    ELSE IF a = <<>> THEN TRUE
    ELSE IF Head(a) # Head(b) THEN Head(a) < Head(b)
    ELSE SegmentsLess(Tail(a), Tail(b))

VersionPrecedes(a, b) == SegmentsLess(Segments(a), Segments(b))

\* C2: in every returned group, all_versions is sorted ascending by version
\* precedence (segment-wise numeric comparison, so 1.9 precedes 1.10), and so
\* version_range runs from the earliest to the latest version of the group.
C2_MembersSortedByVersionPrecedence ==
    Returned =>
        \A i \in 1..Len(format_groups) :
            LET all == format_groups[i].all_versions
            IN  /\ \A j \in 1..(Len(all) - 1) : ~VersionPrecedes(all[j + 1], all[j])
                /\ \A v \in Elems(all) :
                     /\ ~VersionPrecedes(v, all[1])
                     /\ ~VersionPrecedes(all[Len(all)], v)

\* the pack_formats of the releases list
InputFormats == { mc_releases[i].pack_format : i \in 1..Len(mc_releases) }

\* C4: partition completeness: exactly one group per distinct pack_format of the
\* input, no group with an empty all_versions, and every release's identifier in
\* all_versions of the group keyed by its pack_format and in no other group.
C4_PartitionCompleteness ==
    Returned =>
        /\ { format_groups[i].pack_format : i \in 1..Len(format_groups) } = InputFormats
        /\ \A i, j \in 1..Len(format_groups) :
               format_groups[i].pack_format = format_groups[j].pack_format => i = j
        /\ \A i \in 1..Len(format_groups) : format_groups[i].all_versions # <<>>
        /\ \A r \in 1..Len(mc_releases) : \A i \in 1..Len(format_groups) :
               (mc_releases[r].version \in Elems(format_groups[i].all_versions))
                   <=> (format_groups[i].pack_format = mc_releases[r].pack_format)

\* two releases of one pack_format and a third of another, grouped
C4_Witness ==
    /\ Returned
    /\ Len(mc_releases) = 3
    /\ Len(format_groups) = 2
    /\ mc_releases[1].pack_format = mc_releases[3].pack_format
    /\ mc_releases[1].version # mc_releases[3].version

\* C5: missing-subset property: the identifiers of missing_versions are exactly
\* those of all_versions that are not in the published set, and has_missing is
\* true exactly when missing_versions is not empty.
C5_MissingSubset ==
    Returned =>
        \A i \in 1..Len(format_groups) :
            /\ Elems(format_groups[i].missing_versions)
                   = Elems(format_groups[i].all_versions) \ modrinth_versions
            /\ format_groups[i].has_missing <=> (format_groups[i].missing_versions # <<>>)

\* one group partly published, another one complete
C5_Witness ==
    /\ Returned
    /\ \E i, j \in 1..Len(format_groups) :
          /\ format_groups[i].has_missing
          /\ Len(format_groups[i].missing_versions) < Len(format_groups[i].all_versions)
          /\ ~format_groups[j].has_missing
          /\ format_groups[j].missing_versions = <<>>

\* C9: range label rule: version_range is all_versions[0] for a group of one
\* member, and otherwise all_versions[0] + "-" + all_versions[-1] of the final
\* list; members 1.16, 1.16.1, 1.17 give "1.16-1.17" and member 1.21 gives "1.21".
C9_RangeLabelRule ==
    Returned =>
        \A i \in 1..Len(format_groups) :
            LET all == format_groups[i].all_versions
                range == format_groups[i].version_range
            IN  /\ Len(all) = 1 => range = all[1]
                /\ Len(all) # 1 => range = all[1] \o <<"-">> \o all[Len(all)]
                /\ all = << <<"1",".","1","6">>, <<"1",".","1","6",".","1">>, <<"1",".","1","7">> >>
                       => range = <<"1",".","1","6","-","1",".","1","7">>
                /\ all = << <<"1",".","2","1">> >> => range = <<"1",".","2","1">>

\* the group 1.16, 1.16.1, 1.17 built from a feed that lists 1.17 first
C9_Witness ==
    /\ Returned
    /\ Len(mc_releases) = 3
    /\ mc_releases[1].version = <<"1",".","1","7">>
    /\ Len(format_groups) = 1
    /\ format_groups[1].all_versions
           = << <<"1",".","1","6">>, <<"1",".","1","6",".","1">>, <<"1",".","1","7">> >>
    /\ format_groups[1].version_range = <<"1",".","1","6","-","1",".","1","7">>

-----------------------------------------------------------------------------
(* Properties of a run of main, checked under Spec *)

PackFormats(groups) == [i \in 1..Len(groups) |-> groups[i].pack_format]

Descending(formats) == \A i \in 1..(Len(formats) - 1) : formats[i] > formats[i + 1]

IsGroupLine(printed) == printed.line = "- Pack Format"

\* the pack_formats of the listing of groups to upload, in the order printed
ListedFormats == LET lines == SelectSeq(stderr, IsGroupLine)
                 IN  [i \in 1..Len(lines) |-> lines[i].arg]

\* the distinct elements of a sequence in order of first appearance
RECURSIVE FirstSeen(_, _)
FirstSeen(seq, seen) ==
    IF seq = <<>> THEN seen
    ELSE FirstSeen(Tail(seq), IF Head(seq) \in Elems(seen) THEN seen ELSE Append(seen, Head(seq)))

PlanWritten == pc = "done" /\ stdout # <<>>

\* C3 as stated: the groups are ordered descending by pack_format wherever the
\* program exposes them: in all_groups and groups_to_upload of the JSON plan and
\* in the listing of groups to upload (12, 4, 1 for pack_formats 1, 4 and 12).
C3_AllOutputsDescending ==
    PlanWritten =>
        /\ Descending(PackFormats(stdout[1].all_groups))
        /\ Descending(PackFormats(stdout[1].groups_to_upload))
        /\ Descending(ListedFormats)

\* C3 as amended: the listing of groups to upload is ordered descending by
\* pack_format and names exactly the groups with missing versions; all_groups and
\* groups_to_upload of the JSON plan are in the order in which each pack_format
\* first appears among the releases.
C3_ListingDescendingPlanFirstSeen ==
    PlanWritten =>
        /\ Descending(ListedFormats)
        /\ Elems(ListedFormats) = Elems(PackFormats(stdout[1].groups_to_upload))
        /\ PackFormats(stdout[1].all_groups)
               = FirstSeen([i \in 1..Len(mc_releases) |-> mc_releases[i].pack_format], <<>>)
        /\ IsSubsequence(stdout[1].groups_to_upload, stdout[1].all_groups)
        /\ \A i \in 1..Len(stdout[1].all_groups) :
               stdout[1].all_groups[i].has_missing
                   <=> stdout[1].all_groups[i] \in Elems(stdout[1].groups_to_upload)

\* releases of pack_formats 1, 4, 12 fed in that order: listed 12, 4, 1
C3_Witness ==
    /\ PlanWritten
    /\ PackFormats(stdout[1].all_groups) = <<1, 4, 12>>
    /\ PackFormats(stdout[1].groups_to_upload) = <<1, 4, 12>>
    /\ ListedFormats = <<12, 4, 1>>

NotFound == modrinth_response.kind = "http_error" /\ modrinth_response.code = 404

ModrinthFatal ==
    \/ modrinth_response.kind = "http_error" /\ modrinth_response.code # 404
    \/ modrinth_response.kind = "error"

\* C6: not-found tolerance: on HTTP 404 fetch_modrinth_versions returns the empty
\* set without ending the run, the run goes on to a plan in which every group has
\* has_missing true and missing_versions covering all its members; any other HTTP
\* status or other failure of the fetch ends the run with exit status 1.
C6_NotFoundTolerance ==
    /\ NotFound =>
        /\ modrinth_versions = {}
        /\ exit_status # Exited(1)
        /\ pc \in {"group", "report", "output", "done"}
        /\ pc = "done" =>
             /\ exit_status = Exited(0)
             /\ Len(stdout) = 1
             /\ stdout[1].modrinth_versions = <<>>
             /\ stdout[1].groups_to_upload = stdout[1].all_groups
             /\ \A i \in 1..Len(mc_releases) :
                    \E g \in 1..Len(stdout[1].all_groups) :
                        mc_releases[i].version \in Elems(stdout[1].all_groups[g].missing_versions)
             /\ \A g \in 1..Len(stdout[1].all_groups) :
                    /\ stdout[1].all_groups[g].has_missing
                    /\ Elems(stdout[1].all_groups[g].missing_versions)
                           = Elems(stdout[1].all_groups[g].all_versions)
    /\ ModrinthFatal => pc = "done" /\ exit_status = Exited(1)

\* a run that met 404 and wrote a plan of two groups, all of it missing
C6_Witness ==
    /\ NotFound
    /\ PlanWritten
    /\ exit_status = Exited(0)
    /\ Len(stdout[1].all_groups) = 2
    /\ Len(mc_releases) = 3

Fatal ==
    \/ pc # "start" /\ argv_len # 2
    \/ release_response.kind = "error"
    \/ ModrinthFatal

\* C7: no partial output on fatal failure: with the argument missing or a feed
\* fetch failing fatally the process ends with status 1 and nothing was written
\* to stdout; the plan is written only after both fetches have completed, and a
\* run that writes it ends with status 0, also when no group misses anything.
C7_NoPartialOutput ==
    /\ Fatal => pc = "done" /\ exit_status = Exited(1)
    /\ exit_status = Exited(1) => stdout = <<>>
    /\ stdout # <<>> =>
         /\ ~Fatal
         /\ release_response.kind = "ok"
         /\ modrinth_response.kind = "ok" \/ NotFound
         /\ Len(stdout) = 1
         /\ pc = "done"
         /\ exit_status = Exited(0)
    /\ pc = "done" => exit_status \in {Exited(0), Exited(1)}
    /\ pc = "done" /\ exit_status = Exited(0) => stdout # <<>>

\* the published feed failing with HTTP 500 after releases had been resolved
C7_Witness ==
    /\ modrinth_response.kind = "http_error"
    /\ modrinth_response.code = 500
    /\ mc_releases # <<>>
    /\ stderr[Len(stderr)].line = "ERROR: Modrinth API error"
    /\ pc = "done"
    /\ exit_status = Exited(1)
    /\ stdout = <<>>

IsKnownRelease(entry) == entry.type = "release" /\ entry.id \in DOMAIN MINECRAFT_VERSION_MAP

IsUnknownRelease(entry) == entry.type = "release" /\ entry.id \notin DOMAIN MINECRAFT_VERSION_MAP

IsUnknownWarning(printed) == printed.line = "WARNING: Unknown pack_format for version"

\* C8: ReleaseSet building: the releases are, in feed order, one
\* MinecraftVersion(id, catalog[id]) for each feed entry of type "release" whose
\* id is in the catalog; entries of another type are dropped silently; each
\* release entry with an id outside the catalog is dropped with one warning
\* naming that id, and does not end the run.
C8_ReleaseSetBuilding ==
    release_response.kind = "ok" =>
        LET known == SelectSeq(release_response.versions, IsKnownRelease)
            unknown == SelectSeq(release_response.versions, IsUnknownRelease)
            warned == SelectSeq(stderr, IsUnknownWarning)
        IN  /\ Len(mc_releases) = Len(known)
            /\ \A i \in 1..Len(known) :
                   /\ mc_releases[i].version = known[i].id
                   /\ mc_releases[i].pack_format = MINECRAFT_VERSION_MAP[known[i].id]
            /\ Len(warned) = Len(unknown)
            /\ \A i \in 1..Len(unknown) : warned[i].arg = unknown[i].id
            /\ modrinth_response = NoResponse => pc = "fetch_modrinth" /\ exit_status = Running

\* a feed of a known release, the unknown release 99.0 and a snapshot
C8_Witness ==
    /\ release_response.kind = "ok"
    /\ Len(release_response.versions) = 3
    /\ \E i \in 1..3 : release_response.versions[i].type = "snapshot"
    /\ \E i \in 1..3 : release_response.versions[i].id = <<"9","9",".","0">>
    /\ Len(mc_releases) = 1
    /\ Len(SelectSeq(stderr, IsUnknownWarning)) = 1
    /\ pc = "fetch_modrinth"

-----------------------------------------------------------------------------
(* Properties of find_missing_versions, checked under SpecMissing *)

NotPublished(release) == release.version \notin modrinth_versions

\* the number of positions of a sequence that hold x
Occurrences(seq, x) == Cardinality({ i \in 1..Len(seq) : seq[i] = x })

\* C11: find_missing_versions returns exactly the releases whose identifier is
\* not in the published set, in the relative order they have in the input list
\* (a stable filter: no sorting, duplicates kept), and the empty list for the
\* empty list.
C11_StableFilter ==
    pc = "resolved" =>
        /\ missing = SelectSeq(mc_releases, NotPublished)
        /\ IsSubsequence(missing, mc_releases)
        /\ \A i \in 1..Len(missing) : missing[i].version \notin modrinth_versions
        /\ \A i \in 1..Len(mc_releases) :
               Occurrences(missing, mc_releases[i])
                   = IF mc_releases[i].version \in modrinth_versions THEN 0
                     ELSE Occurrences(mc_releases, mc_releases[i])
        /\ mc_releases = <<>> => missing = <<>>

\* two unpublished releases around a published one, the later of a lower
\* pack_format: both are returned, in input order
C11_Witness ==
    /\ pc = "resolved"
    /\ Len(mc_releases) = 3
    /\ mc_releases[1].version \notin modrinth_versions
    /\ mc_releases[2].version \in modrinth_versions
    /\ mc_releases[3].version \notin modrinth_versions
    /\ mc_releases[3].pack_format < mc_releases[1].pack_format
    /\ missing = <<mc_releases[1], mc_releases[3]>>

====
